---- MODULE Spec2Model ----
(***************************************************************************)
(* Distance Vector with Poisoned Reverse (PoisonedReverse.py).            *)
(*                                                                         *)
(* Router names are modelled as 1..NumRouters; the number of a router is  *)
(* the alphabetical rank of its name (1 = "A", 2 = "B", ...), so that the *)
(* string comparison of min(..., key=lambda x: x) is the integer order.   *)
(* A dict is a function; its key set is the DOMAIN.  Dict iteration order *)
(* is taken to be ascending name order.                                   *)
(***************************************************************************)
EXTENDS Integers, Sequences, FiniteSets, TLC

\* ---------------------------------------------------------------- bounds
NumRouters == 3
MaxCost == 2
MaxStart == 2
MaxUpdate == 1
MaxNeg == 2
MaxAdv == 1
MaxCalls == 2

\* ------------------------------------------------------------- constants
INF == 1000
None == 0
REMOVE == -1

Routers == 1..NumRouters

VARIABLES
    pc,             \* position in main / distance_vector; "error" after an
                    \* exception left distance_vector, "link_error" after
                    \* one left main's UPDATE loop
    phase,          \* "START" or "UPDATE"
    n_start,        \* how many lines of read_start main has applied
    n_update,       \* how many lines of read_update main has applied
    neighbors,      \* Router.neighbors   {neighbor: cost}
    dis_vec,        \* Router.dis_vec     {dest: cost}
    next_hop,       \* Router.next_hop    {dest: next_hop}
    vec_table,      \* Router.vec_table   {dest: {next_hop: cost}}
    dis_vec_update, \* distance_vector's dis_vec_update {i: {neighbor: dv}}
    convergence,    \* distance_vector's convergence flag
    updated,        \* the value returned by the last update_net call
    t,              \* distance_vector's round counter
    todo,           \* the rest of the for loop the program is in
    err             \* the exception that ended the program, or "none"

vars == <<pc, phase, n_start, n_update, neighbors, dis_vec, next_hop,
          vec_table, dis_vec_update, convergence, updated, t, todo, err>>

routerState == <<dis_vec, next_hop, vec_table>>

\* ------------------------------------------------------------- helpers
EmptyDict == [x \in {} |-> 0]

Min(S) == CHOOSE x \in S : \A y \in S : x <= y

Values(d) == {d[k] : k \in DOMAIN d}

\* the ascending sequence of the elements of a set of router names
RECURSIVE SortedSeq(_)
SortedSeq(S) ==
    IF S = {} THEN <<>>
    ELSE LET m == Min(S) IN <<m>> \o SortedSeq(S \ {m})

\* d[k] = v on a dict (adds the key when it is missing)
DictSet(d, k, v) == [x \in (DOMAIN d) \cup {k} |-> IF x = k THEN v ELSE d[x]]

\* del d[k]
DictDel(d, k) == [x \in (DOMAIN d) \ {k} |-> d[x]]

\* line 78's sum without the cost of the link to the neighbor
Add_without_link(cost, adv) == adv

\* int + float: float('inf') absorbs any finite cost
Add(cost, adv) == IF adv = INF THEN INF ELSE cost + adv

\* the link lines "src dest cost" the topology source may supply
\* (both endpoints declared, src before dest: the order of the endpoints
\* changes nothing in the symmetric assignments of main)
LinkLines == {<<a, b, c>> : a \in Routers, b \in Routers, c \in (0 - MaxNeg)..MaxCost}
               \cap {l \in Routers \X Routers \X Int : l[1] < l[2]}

\* ------------------------------------------------------------ Router
\* Python values handed to update_net as the items of neighbor_dv
PyNum(n) == [type |-> "num", val |-> n]

PyDict(d) == [type |-> "dict", val |-> d]

\* a {dest: cost} vector as update_net's docstring expects it
CostVector(v) == [d \in DOMAIN v |-> PyNum(v[d])]

\* a dict whose values are themselves dicts
DictOfDicts(m) == [k \in DOMAIN m |-> PyDict(m[k])]

\* init_net as its docstring (line 21) describes next_hop: a direct neighbor
\* is its own next hop
init_net_docstring(self) ==
    LET nb == neighbors[self]
    IN [dis_vec |-> [node \in Routers |->
                       IF node = self THEN 0
                       ELSE IF node \in DOMAIN nb THEN nb[node] ELSE INF],
        next_hop |-> [node \in Routers |->
                       IF node = self \/ node \in DOMAIN nb THEN node ELSE None],
        vec_table |-> [node \in Routers |->
                       [n \in DOMAIN nb |-> IF n = node THEN nb[n] ELSE INF]]]

\* init_net without line 45's "self.vec_table[node] = {}": the rows keep the
\* keys they had
init_net_keeps_rows(self) ==
    LET nb == neighbors[self]
        old(node) == IF node \in DOMAIN vec_table[self]
                     THEN vec_table[self][node] ELSE EmptyDict
    IN [dis_vec |-> [node \in Routers |->
                       IF node = self THEN 0
                       ELSE IF node \in DOMAIN nb THEN nb[node] ELSE INF],
        next_hop |-> [node \in Routers |->
                       IF node = self \/ node \in DOMAIN nb THEN self ELSE None],
        vec_table |-> [node \in Routers |->
                       [n \in (DOMAIN old(node)) \cup (DOMAIN nb) |->
                          IF n \notin DOMAIN nb THEN old(node)[n]
                          ELSE IF n = node THEN nb[n] ELSE INF]]]

\* Router.init_net: the router's dis_vec, next_hop and vec_table afterwards
init_net(self) ==
    LET nb == neighbors[self]
        dv == [node \in (DOMAIN dis_vec[self]) \cup Routers |->
                 IF node \notin Routers THEN dis_vec[self][node]
                 ELSE IF node = self THEN 0
                 ELSE IF node \in DOMAIN nb THEN nb[node]
                 ELSE INF]
        nh == [node \in (DOMAIN next_hop[self]) \cup Routers |->
                 IF node \notin Routers THEN next_hop[self][node]
                 ELSE IF node = self THEN self
                 ELSE IF node \in DOMAIN nb THEN self
                 ELSE None]
        vt == [node \in (DOMAIN vec_table[self]) \cup Routers |->
                 IF node \notin Routers THEN vec_table[self][node]
                 ELSE [n \in DOMAIN nb |-> IF n = node THEN nb[n] ELSE INF]]
    IN [dis_vec |-> dv, next_hop |-> nh, vec_table |-> vt]

\* poisoned_reverse without the poison: the plain distance vector
poisoned_reverse_unpoisoned(self, target_neighbor) ==
    [dest \in DOMAIN dis_vec[self] |-> dis_vec[self][dest]]

\* Router.poisoned_reverse: the {dest: cost} vector exported to target_neighbor
poisoned_reverse(self, target_neighbor) ==
    [dest \in DOMAIN dis_vec[self] |->
        IF /\ target_neighbor # None
           /\ next_hop[self][dest] = target_neighbor
           /\ dest # target_neighbor
        THEN INF
        ELSE dis_vec[self][dest]]

\* update_dest without line 80's comparison: the entry via neighbor is
\* overwritten by every merge
update_dest_overwrites(st, self, neighbor, neighbor_dv, dest) ==
    IF dest = self THEN st
    ELSE
        LET new_cost == Add(neighbors[self][neighbor], neighbor_dv[dest].val)
            changed == new_cost # st.vec_table[dest][neighbor]
            row == [st.vec_table[dest] EXCEPT ![neighbor] = new_cost]
            min_cost == Min(Values(row))
            better == min_cost < st.dis_vec[dest]
        IN [dis_vec   |-> IF better THEN [st.dis_vec EXCEPT ![dest] = min_cost]
                          ELSE st.dis_vec,
            next_hop  |-> IF better
                          THEN [st.next_hop EXCEPT ![dest] =
                                   Min({hop \in DOMAIN row : row[hop] = min_cost})]
                          ELSE st.next_hop,
            vec_table |-> [st.vec_table EXCEPT ![dest] = row],
            updated   |-> st.updated \/ changed \/ better,
            raised    |-> "none"]

\* update_dest without lines 75-76's "continue": the router's own name is
\* merged like any other destination
update_dest_merges_self(st, self, neighbor, neighbor_dv, dest) ==
    LET new_cost == Add(neighbors[self][neighbor], neighbor_dv[dest].val)
        lower == new_cost < st.vec_table[dest][neighbor]
        row == IF lower
               THEN [st.vec_table[dest] EXCEPT ![neighbor] = new_cost]
               ELSE st.vec_table[dest]
        min_cost == Min(Values(row))
        better == min_cost < st.dis_vec[dest]
    IN [dis_vec   |-> IF better THEN [st.dis_vec EXCEPT ![dest] = min_cost]
                      ELSE st.dis_vec,
        next_hop  |-> IF better
                      THEN [st.next_hop EXCEPT ![dest] =
                               Min({hop \in DOMAIN row : row[hop] = min_cost})]
                      ELSE st.next_hop,
        vec_table |-> [st.vec_table EXCEPT ![dest] = row],
        updated   |-> st.updated \/ lower \/ better,
        raised    |-> "none"]

\* update_dest reporting a change only when dis_vec[dest] was lowered (line 91)
\* and not when only the entry via neighbor was (line 83)
update_dest_reports_best_only(st, self, neighbor, neighbor_dv, dest) ==
    IF dest = self THEN st
    ELSE
        LET new_cost == Add(neighbors[self][neighbor], neighbor_dv[dest].val)
            lower == new_cost < st.vec_table[dest][neighbor]
            row == IF lower
                   THEN [st.vec_table[dest] EXCEPT ![neighbor] = new_cost]
                   ELSE st.vec_table[dest]
            min_cost == Min(Values(row))
            better == min_cost < st.dis_vec[dest]
        IN [dis_vec   |-> IF better THEN [st.dis_vec EXCEPT ![dest] = min_cost]
                          ELSE st.dis_vec,
            next_hop  |-> IF better
                          THEN [st.next_hop EXCEPT ![dest] =
                                   Min({hop \in DOMAIN row : row[hop] = min_cost})]
                          ELSE st.next_hop,
            vec_table |-> [st.vec_table EXCEPT ![dest] = row],
            updated   |-> st.updated \/ better,
            raised    |-> "none"]

\* one iteration of update_net's for loop (lines 74-91) on the router state st
update_dest(st, self, neighbor, neighbor_dv, dest) ==
    IF dest = self THEN st
    ELSE IF neighbor \notin DOMAIN neighbors[self]
        THEN [st EXCEPT !.raised = "KeyError"]
    ELSE IF dest \notin DOMAIN neighbor_dv
        THEN [st EXCEPT !.raised = "KeyError"]
    ELSE IF neighbor_dv[dest].type # "num"
        THEN [st EXCEPT !.raised = "TypeError"]
    ELSE IF neighbor \notin DOMAIN st.vec_table[dest]
        THEN [st EXCEPT !.raised = "KeyError"]
    ELSE
        LET new_cost == Add(neighbors[self][neighbor], neighbor_dv[dest].val)
            lower == new_cost < st.vec_table[dest][neighbor]
            row == IF lower
                   THEN [st.vec_table[dest] EXCEPT ![neighbor] = new_cost]
                   ELSE st.vec_table[dest]
            min_cost == Min(Values(row))
            better == min_cost < st.dis_vec[dest]
        IN [dis_vec   |-> IF better THEN [st.dis_vec EXCEPT ![dest] = min_cost]
                          ELSE st.dis_vec,
            next_hop  |-> IF better
                          THEN [st.next_hop EXCEPT ![dest] =
                                   Min({hop \in DOMAIN row : row[hop] = min_cost})]
                          ELSE st.next_hop,
            vec_table |-> [st.vec_table EXCEPT ![dest] = row],
            updated   |-> st.updated \/ lower \/ better,
            raised    |-> "none"]

RECURSIVE update_loop(_, _, _, _, _)
update_loop(st, self, neighbor, neighbor_dv, dests) ==
    IF dests = <<>> \/ st.raised # "none" THEN st
    ELSE update_loop(update_dest(st, self, neighbor, neighbor_dv, Head(dests)),
                     self, neighbor, neighbor_dv, Tail(dests))

\* Router.update_net: the router's state afterwards, the value returned
\* (updated) and the exception raised, if any
update_net(self, neighbor, neighbor_dv) ==
    update_loop([dis_vec |-> dis_vec[self], next_hop |-> next_hop[self],
                 vec_table |-> vec_table[self], updated |-> FALSE,
                 raised |-> "none"],
                self, neighbor, neighbor_dv, SortedSeq(DOMAIN dis_vec[self]))

\* ------------------------------------------------------------ main
Init ==
    /\ pc = "start_links"
    /\ phase = "START"
    /\ n_start = 0
    /\ n_update = 0
    /\ neighbors = [r \in Routers |-> EmptyDict]
    /\ dis_vec = [r \in Routers |-> EmptyDict]
    /\ next_hop = [r \in Routers |-> EmptyDict]
    /\ vec_table = [r \in Routers |-> EmptyDict]
    /\ dis_vec_update = EmptyDict
    /\ convergence = TRUE
    /\ updated = FALSE
    /\ t = 0
    /\ todo = <<>>
    /\ err = "none"

\* routers[src].neighbors[dest] = cost; routers[dest].neighbors[src] = cost
SetLink(nbs, src, dest, cost) ==
    [nbs EXCEPT ![src] = DictSet(nbs[src], dest, cost),
                ![dest] = DictSet(nbs[dest], src, cost)]

\* a removal that deletes the link at its first endpoint only (line 231
\* without line 232)
DelLink_one_side(nbs, src, dest) ==
    [nbs EXCEPT ![src] = DictDel(nbs[src], dest)]

\* del routers[src].neighbors[dest]; del routers[dest].neighbors[src]
DelLink(nbs, src, dest) ==
    [nbs EXCEPT ![src] = DictDel(nbs[src], dest),
                ![dest] = DictDel(nbs[dest], src)]

\* one iteration of "for topo_start in read_start"
ApplyStart(src, dest, cost) ==
    /\ pc = "start_links"
    /\ n_start < MaxStart
    /\ n_start' = n_start + 1
    /\ neighbors' = SetLink(neighbors, src, dest, cost)
    /\ UNCHANGED <<pc, phase, n_update, routerState, dis_vec_update,
                   convergence, updated, t, todo, err>>

\* one iteration of "for topo_update in read_update"
ApplyUpdate(src, dest, cost) ==
    /\ pc = "update_links"
    /\ n_update < MaxUpdate
    /\ n_update' = n_update + 1
    /\ IF cost = REMOVE
       THEN IF dest \in DOMAIN neighbors[src] /\ src \in DOMAIN neighbors[dest]
            THEN /\ neighbors' = DelLink(neighbors, src, dest)
                 /\ UNCHANGED <<pc, err>>
            ELSE /\ pc' = "link_error"
                 /\ err' = "KeyError"
                 /\ UNCHANGED neighbors
       ELSE /\ neighbors' = SetLink(neighbors, src, dest, cost)
            /\ UNCHANGED <<pc, err>>
    /\ UNCHANGED <<phase, n_start, routerState, dis_vec_update,
                   convergence, updated, t, todo>>

\* ------------------------------------------------- distance_vector
\* the call distance_vector(routers, phase) once the links are applied
StartPhase ==
    /\ pc \in {"start_links", "update_links"}
    /\ phase' = (IF pc = "start_links" THEN "START" ELSE "UPDATE")
    /\ pc' = "init"
    /\ todo' = SortedSeq(Routers)
    /\ UNCHANGED <<n_start, n_update, neighbors, routerState, dis_vec_update,
                   convergence, updated, t, err>>

\* one iteration of "for router in routers.values(): router.init_net(routers)";
\* after the last one t = 0 and the while loop is entered
InitNet ==
    /\ pc = "init"
    /\ todo # <<>>
    /\ LET self == Head(todo)
           st == init_net(self)
       IN /\ dis_vec' = [dis_vec EXCEPT ![self] = st.dis_vec]
          /\ next_hop' = [next_hop EXCEPT ![self] = st.next_hop]
          /\ vec_table' = [vec_table EXCEPT ![self] = st.vec_table]
    /\ todo' = Tail(todo)
    /\ IF Tail(todo) = <<>>
       THEN pc' = "round" /\ t' = 0
       ELSE UNCHANGED <<pc, t>>
    /\ UNCHANGED <<phase, n_start, n_update, neighbors, dis_vec_update,
                   convergence, updated, err>>

\* the (router, neighbor) pairs of the merge loops, in iteration order
RECURSIVE MergePairs(_)
MergePairs(rs) ==
    IF rs = <<>> THEN <<>>
    ELSE LET r == Head(rs)
             ns == SortedSeq(DOMAIN neighbors[r])
         IN [k \in 1..Len(ns) |-> <<r, ns[k]>>] \o MergePairs(Tail(rs))

\* the export step computing only the first router's exports, the others
\* being left for later in the round
Export_lazy ==
    /\ pc = "round"
    /\ convergence' = TRUE
    /\ dis_vec_update' =
         [i \in {Min(Routers)} |->
            [neighbor \in DOMAIN neighbors[i] |-> poisoned_reverse(i, neighbor)]]
    /\ todo' = MergePairs(SortedSeq(Routers))
    /\ pc' = "merge"
    /\ UNCHANGED <<phase, n_start, n_update, neighbors, routerState,
                   updated, t, err>>

\* lines 158-163: convergence = True and every router's poisoned exports
Export ==
    /\ pc = "round"
    /\ convergence' = TRUE
    /\ dis_vec_update' =
         [i \in Routers |->
            [neighbor \in DOMAIN neighbors[i] |-> poisoned_reverse(i, neighbor)]]
    /\ todo' = MergePairs(SortedSeq(Routers))
    /\ pc' = "merge"
    /\ UNCHANGED <<phase, n_start, n_update, neighbors, routerState,
                   updated, t, err>>

\* the argument line 166 hands to update_net for neighbor
MergeArgument(neighbor) == DictOfDicts(dis_vec_update[neighbor])

\* lines 165-168: one call router.update_net(neighbor, dis_vec_update[neighbor])
Merge ==
    /\ pc = "merge"
    /\ todo # <<>>
    /\ LET self == Head(todo)[1]
           neighbor == Head(todo)[2]
           st == update_net(self, neighbor, MergeArgument(neighbor))
       IN /\ dis_vec' = [dis_vec EXCEPT ![self] = st.dis_vec]
          /\ next_hop' = [next_hop EXCEPT ![self] = st.next_hop]
          /\ vec_table' = [vec_table EXCEPT ![self] = st.vec_table]
          /\ IF st.raised # "none"
             THEN /\ pc' = "error"
                  /\ err' = st.raised
                  /\ UNCHANGED <<updated, convergence, todo>>
             ELSE /\ updated' = st.updated
                  /\ convergence' = (IF st.updated THEN FALSE ELSE convergence)
                  /\ todo' = Tail(todo)
                  /\ UNCHANGED <<pc, err>>
    /\ UNCHANGED <<phase, n_start, n_update, neighbors, dis_vec_update, t>>

\* lines 169-171: leave the while loop when the round changed nothing
EndRound ==
    /\ pc = "merge"
    /\ todo = <<>>
    /\ IF convergence
       THEN /\ pc' = (IF phase = "START" THEN "update_links" ELSE "done")
            /\ UNCHANGED t
       ELSE /\ pc' = "round"
            /\ t' = t + 1
    /\ UNCHANGED <<phase, n_start, n_update, neighbors, routerState,
                   dis_vec_update, convergence, updated, todo, err>>

Next ==
    \/ \E l \in LinkLines : ApplyStart(l[1], l[2], l[3])
    \/ \E l \in LinkLines : ApplyUpdate(l[1], l[2], l[3])
    \/ StartPhase
    \/ InitNet
    \/ Export
    \/ Merge
    \/ EndRound

Spec == Init /\ [][Next]_vars

\* ------------------------------------------------------ Router alone
(***************************************************************************)
(* RouterSpec drives the Router class through its interface: main applies *)
(* the links and distance_vector initialises every router as above, and   *)
(* then one router is called with update_net(neighbor, neighbor_dv) for   *)
(* any current neighbor and any {dest: cost} vector, and with             *)
(* poisoned_reverse(target_neighbor).  A call reads and writes the called *)
(* router's fields only, so one router is called per phase (todo holds    *)
(* it); t counts the update_net calls of the phase.                       *)
(***************************************************************************)
AdvCosts == (0..MaxAdv) \cup {INF}

Vectors == [Routers -> AdvCosts]

CallUpdateNet(self, neighbor, v) ==
    /\ pc = "round"
    /\ t < MaxCalls
    /\ todo = <<>> \/ todo = <<self>>
    /\ LET st == update_net(self, neighbor, CostVector(v))
       IN /\ dis_vec' = [dis_vec EXCEPT ![self] = st.dis_vec]
          /\ next_hop' = [next_hop EXCEPT ![self] = st.next_hop]
          /\ vec_table' = [vec_table EXCEPT ![self] = st.vec_table]
          /\ updated' = st.updated
          /\ IF st.raised # "none"
             THEN pc' = "error" /\ err' = st.raised
             ELSE UNCHANGED <<pc, err>>
    /\ t' = t + 1
    /\ todo' = <<self>>
    /\ UNCHANGED <<phase, n_start, n_update, neighbors, dis_vec_update,
                   convergence>>

CallPoisonedReverse(self, target_neighbor) ==
    /\ pc = "round"
    /\ todo = <<>> \/ todo = <<self>>
    /\ dis_vec_update' =
         [i \in {self} |->
            [n \in {target_neighbor} |-> poisoned_reverse(self, target_neighbor)]]
    /\ pc' = "exported"
    /\ todo' = <<self>>
    /\ UNCHANGED <<phase, n_start, n_update, neighbors, routerState,
                   convergence, updated, t, err>>

Return ==
    /\ pc = "exported"
    /\ pc' = "round"
    /\ dis_vec_update' = EmptyDict
    /\ UNCHANGED <<phase, n_start, n_update, neighbors, routerState,
                   convergence, updated, t, todo, err>>

EndPhase ==
    /\ pc = "round"
    /\ pc' = (IF phase = "START" THEN "update_links" ELSE "done")
    /\ todo' = <<>>
    /\ UNCHANGED <<phase, n_start, n_update, neighbors, routerState,
                   dis_vec_update, convergence, updated, t, err>>

RouterNext ==
    \/ \E l \in LinkLines : ApplyStart(l[1], l[2], l[3])
    \/ \E l \in LinkLines : ApplyUpdate(l[1], l[2], l[3])
    \/ StartPhase
    \/ InitNet
    \/ \E self \in Routers : \E neighbor \in DOMAIN neighbors[self] :
          \E v \in Vectors : CallUpdateNet(self, neighbor, v)
    \/ \E self \in Routers : \E n \in (DOMAIN neighbors[self]) \cup {None} :
          CallPoisonedReverse(self, n)
    \/ Return
    \/ EndPhase

RouterSpec == Init /\ [][RouterNext]_vars

\* =============================================================== claims
\* every link cost is a non-negative integer
ValidNetwork ==
    \A r \in Routers : \A n \in DOMAIN neighbors[r] : neighbors[r][n] >= 0

\* the cheapest cost from r to d over paths of at most k links
RECURSIVE PathCost(_, _, _)
PathCost(k, r, d) ==
    IF k = 0 THEN (IF r = d THEN 0 ELSE INF)
    ELSE Min({PathCost(k - 1, r, d)} \cup
             {Add(neighbors[r][n], PathCost(k - 1, n, d)) : n \in DOMAIN neighbors[r]})

\* the true shortest-path cost in the current link-cost graph
ShortestPath(r, d) == PathCost(NumRouters - 1, r, d)

Connected == \A r \in Routers : \A d \in Routers : ShortestPath(r, d) < INF

\* every router has run init_net in the current phase
Initialised == pc \in {"round", "merge", "exported", "error"}

\* the round loop of the latest phase has been left by its break, and no
\* link has been changed since
Converged ==
    \/ pc = "update_links" /\ n_update = 0
    \/ pc = "done"

\* the round loop of the current phase has been left, by its break or by an
\* exception
LoopLeft == Converged \/ pc = "error"

\* C1: a phase on a connected network with non-negative costs keeps running
\* (within 2 * NumRouters rounds) until its round loop exits by convergence
C1_Termination ==
    (Initialised /\ ValidNetwork /\ Connected)
        => (ENABLED Next /\ t <= 2 * NumRouters)

\* C2: once the round loop of a phase has been left, every dis_vec[D] of every
\* router R is the true shortest-path cost from R to D
C2_FixedPoint ==
    (LoopLeft /\ ValidNetwork)
        => \A r \in Routers : \A d \in Routers :
              dis_vec[r][d] = ShortestPath(r, d)

\* C3: on a valid network no operation of a phase ends in an exception
C3_Totality == ValidNetwork => pc # "error"

\* the line topology A-B-C with costs ab and bc
LineTopology(ab, bc) ==
    /\ NumRouters >= 3
    /\ neighbors[1] = [n \in {2} |-> ab]
    /\ neighbors[2] = [n \in {1, 3} |-> IF n = 1 THEN ab ELSE bc]
    /\ neighbors[3] = [n \in {2} |-> bc]
    /\ \A r \in Routers \ {1, 2, 3} : neighbors[r] = EmptyDict

\* C7: on the line A-B-C (costs 1, 1) the START phase converges, and after the
\* UPDATE batch raised B-C the UPDATE phase ends with A.dis_vec[C] = A-B cost
\* plus the new B-C cost, via B, within 2 * NumRouters rounds
C7_CountToInfinity ==
    /\ (LineTopology(1, 1) /\ pc # "start_links") => pc # "error"
    /\ \A c \in 2..MaxCost :
          (LineTopology(1, c) /\ phase = "UPDATE" /\ Initialised)
              => /\ pc # "error"
                 /\ t <= 2 * NumRouters
    /\ \A c \in 2..MaxCost :
          (LineTopology(1, c) /\ pc = "done")
              => /\ dis_vec[1][3] = 1 + c
                 /\ next_hop[1][3] = 2

\* C9: once the round loop of a phase has been left, the next hop of every
\* router R to every reachable destination D # R is a neighbor N of R with
\* cost(R, N) + shortest path (N, D) = R.dis_vec[D]
C9_NextHopRealizes ==
    (LoopLeft /\ ValidNetwork)
        => \A r \in Routers : \A d \in Routers \ {r} :
              ShortestPath(r, d) < INF
                  => /\ next_hop[r][d] \in DOMAIN neighbors[r]
                     /\ Add(neighbors[r][next_hop[r][d]],
                            ShortestPath(next_hop[r][d], d)) = dis_vec[r][d]

\* C10: after init_net and after every merge, for every router R with a
\* neighbor and every d # R, dis_vec[d] is the minimum of vec_table[d] and,
\* when finite, next_hop[d] is a neighbor whose vec_table[d] entry is it
C10_TableConsistency ==
    (Initialised /\ ValidNetwork)
        => \A r \in Routers : \A d \in Routers \ {r} :
              neighbors[r] # EmptyDict
                  => LET row == vec_table[r][d]
                         m == Min(Values(row))
                     IN /\ dis_vec[r][d] = m
                        /\ m < INF
                             => /\ next_hop[r][d] \in DOMAIN neighbors[r]
                                /\ next_hop[r][d] \in DOMAIN row
                                /\ row[next_hop[r][d]] = m

\* ----------------------------------------------- claims on RouterSpec
\* C4: the vector R.poisoned_reverse(N) just returned advertises INF for D when
\* next_hop[D] = N and D # N, and dis_vec[D] for every other destination
\* (also for D = N and when no target neighbor is given)
C4_Poisoning ==
    pc = "exported"
        => \A r \in DOMAIN dis_vec_update : \A n \in DOMAIN dis_vec_update[r] :
              /\ DOMAIN dis_vec_update[r][n] = Routers
              /\ \A d \in Routers :
                    /\ (n # None /\ next_hop[r][d] = n /\ d # n)
                           => dis_vec_update[r][n][d] = INF
                    /\ (n = None \/ next_hop[r][d] # n \/ d = n)
                           => dis_vec_update[r][n][d] = dis_vec[r][d]

\* a finite route is poisoned in the vector just returned
C4_Witness ==
    /\ pc = "exported"
    /\ \E r \in DOMAIN dis_vec_update : \E n \in DOMAIN dis_vec_update[r] :
          \E d \in Routers :
             /\ next_hop[r][d] = n
             /\ d # n
             /\ dis_vec[r][d] < INF
             /\ dis_vec_update[r][n][d] = INF

\* the neighbors of r whose vec_table[d] entry is the minimum of the row
Cheapest(r, d) ==
    {n \in DOMAIN vec_table[r][d] :
        vec_table[r][d][n] = Min(Values(vec_table[r][d]))}

\* C5: whenever two or more neighbors of R yield the same finite minimal cost
\* in R.vec_table[D], R.next_hop[D] is the smallest of their names
C5_TieBreak ==
    (pc = "round" /\ ValidNetwork)
        => \A r \in Routers : \A d \in Routers \ {r} :
              (/\ Cardinality(Cheapest(r, d)) >= 2
               /\ Min(Values(vec_table[r][d])) < INF)
                  => next_hop[r][d] = Min(Cheapest(r, d))

\* the keys that vec_table[r][d] has before and after the step
CommonKeys(r, d) ==
    IF d \in DOMAIN vec_table[r] /\ d \in DOMAIN vec_table'[r]
    THEN (DOMAIN vec_table[r][d]) \cap (DOMAIN vec_table'[r][d])
    ELSE {}

\* C6: no step of a phase after init_net raises an entry of vec_table, and
\* the init_net that follows a phase without a change of the links lowers none
C6_Monotone ==
    [][/\ pc \in {"round", "exported"}
          => \A r \in Routers : \A d \in Routers :
                /\ DOMAIN vec_table'[r][d] = DOMAIN vec_table[r][d]
                /\ \A n \in DOMAIN vec_table[r][d] :
                      vec_table'[r][d][n] <= vec_table[r][d][n]
       /\ (pc \in {"update_links", "init"} /\ n_update = 0)
          => \A r \in Routers : \A d \in Routers : \A n \in CommonKeys(r, d) :
                vec_table'[r][d][n] >= vec_table[r][d][n]]_vars

\* a merge has lowered an entry below its initial value, and the phase that
\* follows without a change of the links has initialised the routers again
C6_Witness ==
    /\ phase = "UPDATE"
    /\ n_update = 0
    /\ pc = "round"
    /\ t = 0
    /\ updated
    /\ \E r \in Routers : neighbors[r] # EmptyDict

\* what init_net leaves in a freshly created router with the neighbors of r
FreshRouter(r) ==
    LET nb == neighbors[r]
    IN [dis_vec |-> [d \in Routers |->
                       IF d = r THEN 0 ELSE IF d \in DOMAIN nb THEN nb[d] ELSE INF],
        next_hop |-> [d \in Routers |->
                       IF d = r \/ d \in DOMAIN nb THEN r ELSE None],
        vec_table |-> [d \in Routers |->
                       [n \in DOMAIN nb |-> IF n = d THEN nb[n] ELSE INF]]]

\* C8: after the init_net calls of a phase every router is in the state of a
\* freshly created router with its current neighbors, and throughout the
\* phase the keys of every vec_table[d] are the current neighbors
C8_PhaseReset ==
    /\ (pc = "round" /\ t = 0 /\ todo = <<>>)
          => \A r \in Routers :
                /\ dis_vec[r] = FreshRouter(r).dis_vec
                /\ next_hop[r] = FreshRouter(r).next_hop
                /\ vec_table[r] = FreshRouter(r).vec_table
    /\ pc \in {"round", "exported"}
          => \A r \in Routers : \A d \in Routers :
                DOMAIN vec_table[r][d] = DOMAIN neighbors[r]

\* the UPDATE phase runs after the one link of the START phase, over which a
\* merge had changed a router's tables, was removed
C8_Witness ==
    /\ phase = "UPDATE"
    /\ pc = "round"
    /\ n_start = 1
    /\ n_update = 1
    /\ t = 0
    /\ updated
    /\ \A r \in Routers : neighbors[r] = EmptyDict

\* the router has run init_net at least once
HasRunInitNet(r) == dis_vec[r] # EmptyDict

\* C11: from a router's first init_net on, its dis_vec[name] is 0, its
\* next_hop[name] is its name, and the vec_table row of its own name is as
\* init_net left it (infinite via every neighbor): no merge touches them
C11_SelfEntry ==
    \A r \in Routers :
        HasRunInitNet(r)
            => /\ dis_vec[r][r] = 0
               /\ next_hop[r][r] = r
               /\ \A n \in DOMAIN vec_table[r][r] : vec_table[r][r][n] = INF

\* a merge has changed the tables of a router, in the second phase
C11_Witness ==
    /\ phase = "UPDATE"
    /\ pc = "round"
    /\ t >= 1
    /\ updated
    /\ \E r \in Routers : todo = <<r>> /\ dis_vec[r][r] = 0 /\ next_hop[r][r] = r

\* C12: a negative link cost is rejected when the links are applied: no
\* router's neighbors map ever holds one, so no phase runs on one
C12_NegativeRejected ==
    \A r \in Routers : \A n \in DOMAIN neighbors[r] : ~(neighbors[r][n] < 0)

\* C13: the vector a router merges on behalf of a neighbor is that neighbor's
\* poisoned export targeted at the router, as the round's export step
\* computed it: a {destination: cost} mapping over all routers
C13_MergeInput ==
    (pc = "merge" /\ todo # <<>> /\ ValidNetwork)
        => LET self == Head(todo)[1]
               neighbor == Head(todo)[2]
               arg == MergeArgument(neighbor)
               export == dis_vec_update[neighbor][self]
           IN /\ DOMAIN arg = DOMAIN export
              /\ \A dest \in DOMAIN arg :
                    /\ arg[dest].type = "num"
                    /\ arg[dest].val = export[dest]

\* what router i advertises to its neighbor n in the state at hand
StartOfRoundExport(i, n) ==
    [d \in Routers |->
        IF next_hop[i][d] = n /\ d # n THEN INF ELSE dis_vec[i][d]]

\* C14: the step that opens a round computes every export of every router
\* from the state at the start of the round and changes no router; the
\* merges of the round read those exports and no step of the round
\* recomputes one
C14_SynchronousRounds ==
    [][/\ pc = "round"
          => /\ pc' = "merge"
             /\ routerState' = routerState
             /\ DOMAIN dis_vec_update' = Routers
             /\ \A i \in Routers :
                   /\ DOMAIN dis_vec_update'[i] = DOMAIN neighbors[i]
                   /\ \A n \in DOMAIN neighbors[i] :
                         dis_vec_update'[i][n] = StartOfRoundExport(i, n)
       /\ pc = "merge" => dis_vec_update' = dis_vec_update]_vars

\* a merge of a round has been applied after the exports of two routers
\* were computed
C14_Witness ==
    /\ pc = "error"
    /\ \E i \in Routers : \E n \in DOMAIN neighbors[i] :
          /\ n \in DOMAIN dis_vec_update[i]
          /\ i \in DOMAIN dis_vec_update[n]
          /\ dis_vec_update[i][n] = dis_vec[i]

OnlyMergeOfRound(R, N) ==
    LET st == update_net(R, N, CostVector(poisoned_reverse(N, R)))
    IN /\ DOMAIN neighbors[R] = {N}
       /\ dis_vec'[R] = st.dis_vec
       /\ next_hop'[R] = st.next_hop
       /\ vec_table'[R] = st.vec_table

\* C16: after the first round of a phase no router R has next_hop[d] = R for
\* a destination d other than R: the value init_net assigns for a direct
\* neighbor is replaced by the round's merges
C16_PlaceholderOverwritten ==
    [][(/\ ValidNetwork
        /\ pc = "round" /\ t = 0 /\ todo = <<>>
        /\ pc' = "round" /\ t' = 1)
          => LET R == Head(todo')
             IN \A N \in DOMAIN neighbors[R] :
                   OnlyMergeOfRound(R, N)
                      => \A d \in Routers \ {R} : next_hop'[R][d] # R]_vars

\* the entries of destination d of router R after the step at hand are those
\* of a merge of the cost adv advertised by neighbor N
MergedEntry(R, N, d, adv) ==
    LET cand == IF adv = INF THEN INF ELSE neighbors[R][N] + adv
        old == vec_table[R][d][N]
        least == Min({vec_table'[R][d][n] : n \in DOMAIN neighbors[R]})
    IN /\ DOMAIN vec_table'[R][d] = DOMAIN neighbors[R]
       /\ vec_table'[R][d][N] = (IF cand < old THEN cand ELSE old)
       /\ \A n \in DOMAIN neighbors[R] \ {N} :
             vec_table'[R][d][n] = vec_table[R][d][n]
       /\ dis_vec'[R][d] =
             (IF least < dis_vec[R][d] THEN least ELSE dis_vec[R][d])

RoundChangesNothing ==
    \A r \in Routers : \A n \in DOMAIN neighbors[r] :
        LET st == update_net(r, n, CostVector(poisoned_reverse(n, r)))
        IN /\ st.raised = "none"
           /\ ~st.updated
           /\ st.next_hop = next_hop[r]

\* C18: the round loop is left only at the end of a round none of whose
\* merges reported a change, so the state it is left in is a fixed point:
\* one more round of exports and merges would change no router's tables
C18_ConvergenceDetection ==
    (LoopLeft /\ ValidNetwork)
        => /\ todo = <<>>
           /\ convergence
           /\ RoundChangesNothing

\* C19: throughout a phase, for every router R and every direct neighbor n of
\* R, R.vec_table[n][n] is exactly neighbors[n]: no merge lowers or otherwise
\* changes the one-hop entry of a neighbor via itself
C19_DirectLinkCap ==
    Initialised
        => \A R \in Routers : \A n \in DOMAIN neighbors[R] :
              vec_table[R][n][n] = neighbors[R][n]

\* router R has merged a vector of its neighbor n that gave it a route via n
\* to a third router, and the one-hop entry of n is the link cost
C19_Witness ==
    /\ pc = "round"
    /\ t >= 1
    /\ \E R \in Routers : \E n \in DOMAIN neighbors[R] :
          /\ todo = <<R>>
          /\ neighbors[R][n] > 0
          /\ vec_table[R][n][n] = neighbors[R][n]
          /\ \E d \in Routers \ {R, n} : vec_table[R][d][n] < INF

\* C20: whatever links were added, re-costed and removed for the START links
\* and the UPDATE batch, B is a neighbor of A exactly when A is one of B,
\* with the same cost on both sides
C20_LinkSymmetry ==
    \A A \in Routers : \A B \in Routers :
        /\ B \in DOMAIN neighbors[A] <=> A \in DOMAIN neighbors[B]
        /\ B \in DOMAIN neighbors[A] => neighbors[A][B] = neighbors[B][A]

\* the UPDATE batch has removed one of the two links of the START phase and
\* the other one is still there, at both of its endpoints
C20_Witness ==
    /\ pc = "update_links"
    /\ n_start = 2
    /\ n_update = 1
    /\ \E A \in Routers : \E B \in Routers \ {A} : \E C \in Routers \ {A, B} :
          /\ DOMAIN neighbors[A] = {B}
          /\ DOMAIN neighbors[B] = {A}
          /\ neighbors[C] = EmptyDict
          /\ dis_vec[C][A] < INF

====
